---- MODULE Spec2Model ----
(***************************************************************************)
(* Galois field arithmetic for binary extension fields GF(2^m)             *)
(* (binext.py): the lookup tables built by class ff and the element        *)
(* operations of class ffelt.                                              *)
(*                                                                         *)
(* Python values are tagged records: None, ints, bools, lists, ff objects, *)
(* ffelt objects.  A call either returns a value or raises; a raised       *)
(* exception is the record Raise(exc, line) naming the exception class the *)
(* interpreter raises and the source line that raises it.  (Under Python 3 *)
(* a `raise "text"` statement raises TypeError at that line.)              *)
(***************************************************************************)
EXTENDS Integers, Sequences, FiniteSets, TLC

\* ------------------------------------------------------------ bounds
\* Largest extension degree m of the fields used for element arithmetic.
MaxM == 4
\* Exponents handed to the ffelt constructor run from -ExtraExp to
\* (q-2)+ExtraExp, so unreduced and negative exponents occur.
ExtraExp == 2
\* Integer powers run over -MaxPow .. MaxPow.
MaxPow == 3
\* Raw integer operands run over 0 .. MaxRawInt.
MaxRawInt == 3
\* Explicit polynomial lists are the increasing lists over 0 .. MaxDeg.
MaxDeg == 4
\* Integer field specifiers outside the catalog run over 0 .. MaxIntSpec.
MaxIntSpec == 9

\* ------------------------------------------------------------ Python values
None == [t |-> "None"]
PyInt(n) == [t |-> "int", v |-> n]
PyBool(b) == [t |-> "bool", b |-> b]
PyList(s) == [t |-> "list", items |-> s]
Raise(exc, line) == [t |-> "raise", exc |-> exc, line |-> line]

\* No object bound yet (a register before its first assignment).
Unset == [t |-> "unset"]

IsRaise(r) == r.t = "raise"
IsElt(r) == r.t = "ffelt"
IsFF(r) == r.t = "ff"

\* bool(v) for the values a comparison returns: None and False are falsy.
Truthy(v) == v = PyBool(TRUE)

\* Mutant of PyMod: the remainder of truncating division, which has the sign
\* of the dividend.
PyMod_truncating(a, n) == IF a >= 0 THEN a % n ELSE 0 - ((0 - a) % n)

\* a % n for n > 0: Python's result has the sign of the divisor.
PyMod(a, n) == a % n

\* a ^ b on non-negative ints.
RECURSIVE Xor(_, _)
Xor(a, b) ==
    IF a = 0 THEN b
    ELSE IF b = 0 THEN a
    ELSE (((a % 2) + (b % 2)) % 2) + (2 * Xor(a \div 2, b \div 2))

\* dict operations: a dict is a function whose domain is its key set.
DictSet(d, k, val) == (k :> val) @@ d
HasKey(d, k) == k \in DOMAIN d

\* ------------------------------------------------------------ class ff
primpolys ==
    (4 :> <<0, 1, 2>>) @@ (8 :> <<0, 1, 3>>) @@ (16 :> <<0, 1, 4>>) @@
    (32 :> <<0, 2, 5>>) @@ (64 :> <<0, 1, 6>>) @@ (128 :> <<0, 3, 7>>) @@
    (256 :> <<0, 2, 3, 4, 8>>)

\* g: the sum of 2**i over the list (lines 81-84).
RECURSIVE ff_g(_)
ff_g(glist) ==
    IF glist = <<>> THEN 0 ELSE 2 ^ Head(glist) + ff_g(Tail(glist))

\* int(np.log2(g)) for g >= 1 (line 86).
RECURSIVE ff_log2(_)
ff_log2(g) == IF g <= 1 THEN 0 ELSE 1 + ff_log2(g \div 2)

\* Mutant of ff_next: the overflowing bit is dropped without adding the
\* polynomial's low-order terms.
ff_next_unreduced(a, q, gp) ==
    LET s == a * 2 IN
    IF (s \div q) % 2 = 1 THEN s % q ELSE s

\* Lines 102-106: multiply a by x and reduce modulo the polynomial.
ff_next(a, q, gp) ==
    LET s == a * 2 IN
    IF (s \div q) % 2 = 1 THEN Xor(s % q, gp) ELSE s

\* One iteration of the loop of lines 97-106: st = <<a, power_to_poly,
\* poly_to_power>> before iteration n, the result is the triple after it.
ff_step(n, st, q, gp) ==
    << ff_next(st[1], q, gp),
       DictSet(st[2], PyInt(n), st[1]),
       DictSet(st[3], st[1], PyInt(n)) >>

\* Iterations lo, lo+1, ..., hi-1 of the loop, in order, from st.  The range
\* is run as its first half followed by its second half.  (The accumulator is
\* never negative; reading it first makes the evaluator finish the first half
\* before it starts the second, which keeps the evaluation depth logarithmic.)
RECURSIVE ff_loop(_, _, _, _, _)
ff_loop(lo, hi, st, q, gp) ==
    IF hi <= lo \/ st[1] < 0 THEN st
    ELSE IF hi = lo + 1 THEN ff_step(lo, st, q, gp)
    ELSE LET mid == (lo + hi) \div 2
         IN  ff_loop(mid, hi, ff_loop(lo, mid, st, q, gp), q, gp)

\* Lines 80-106: the tables of the polynomial given as an exponent list.
ff_tables(glist) ==
    LET g == ff_g(glist) IN
    IF g = 0 THEN Raise("OverflowError", 86)
    ELSE
        LET m == ff_log2(g)
            q == 2 ^ m
            gp == g % q
            tabs == ff_loop(0, q - 1, <<1, (None :> 0), (0 :> None)>>, q, gp)
        IN  [t |-> "ff", g |-> g, m |-> m, q |-> q,
             power_to_poly |-> tabs[2], poly_to_power |-> tabs[3]]

\* ff.__init__(gspec)
ff_init(gspec) ==
    IF gspec.t = "int" THEN
        IF gspec.v \in DOMAIN primpolys THEN ff_tables(primpolys[gspec.v])
        ELSE Raise("TypeError", 74)
    ELSE IF gspec.t = "list" THEN ff_tables(gspec.items)
    ELSE Raise("TypeError", 78)

\* ------------------------------------------------------------ inputs
\* Increasing exponent lists over lo .. MaxDeg.
RECURSIVE IncLists(_)
IncLists(lo) ==
    IF lo > MaxDeg THEN {<<>>}
    ELSE LET rest == IncLists(lo + 1)
         IN  rest \cup {<<lo>> \o s : s \in rest}

\* Field specifiers handed to ff(): catalog orders, other integers, explicit
\* exponent lists (well formed or not), and a value of another type.
FieldSpecs ==
    {PyInt(n) : n \in (DOMAIN primpolys) \cup (0 .. MaxIntSpec)}
    \cup {PyList(s) : s \in IncLists(0)}
    \cup {None}

\* Field specifiers handed to ffelt() in element arithmetic: the catalog
\* orders up to 2^MaxM, an order outside the catalog, and the second
\* primitive polynomial of degree 3 as an explicit list.
ArithSpecs ==
    {PyInt(2 ^ m) : m \in 2 .. MaxM} \cup {PyInt(5), PyList(<<0, 2, 3>>)}

\* ff(gspec).  Construction is deterministic, so each specifier's tables are
\* computed once and looked up afterwards.
MemoSpecs == FieldSpecs \cup ArithSpecs
ff_memo == [gs \in MemoSpecs |-> ff_init(gs)]
ff(gspec) == IF gspec \in MemoSpecs THEN ff_memo[gspec] ELSE ff_init(gspec)

\* ------------------------------------------------------------ class ffelt
\* ffelt.__init__(elt, f): f is an ff object, a field specifier, or the
\* default -1 (then the single argument is the specifier and elt is 1).
ffelt_init(elt, f) ==
    LET f1 == IF f = PyInt(-1) THEN elt ELSE f
        elt1 == IF f = PyInt(-1) THEN PyInt(1) ELSE elt
        fobj == IF IsFF(f1) THEN f1 ELSE ff(f1)
    IN  IF IsRaise(fobj) THEN fobj
        ELSE IF elt1 = None THEN
            [t |-> "ffelt", f |-> fobj, q |-> fobj.q, elt |-> None]
        ELSE IF elt1.t = "int" THEN
            IF fobj.q - 1 = 0 THEN Raise("ZeroDivisionError", 245)
            ELSE [t |-> "ffelt", f |-> fobj, q |-> fobj.q,
                  elt |-> PyInt(PyMod(elt1.v, fobj.q - 1))]
        ELSE Raise("TypeError", 247)

\* == between None, ints and bools.
NumVal(v) == IF v.t = "bool" THEN (IF v.b THEN 1 ELSE 0) ELSE v.v
BuiltinEq(a, b) ==
    IF a.t \in {"int", "bool"} /\ b.t \in {"int", "bool"}
    THEN PyBool(NumVal(a) = NumVal(b))
    ELSE PyBool(a = b)

\* ffelt.__eq__(self, a) (lines 376-385).  The tests a==0 and a==1 are Python
\* comparisons: when a is itself an ffelt they call a.__eq__ with the literal.
\* A call that matches no branch returns None.
RECURSIVE ffelt_eq(_, _)
PyEq(a, b) == IF IsElt(a) THEN ffelt_eq(a, b) ELSE BuiltinEq(a, b)

ffelt_eq(self, a) ==
    IF Truthy(PyEq(a, PyInt(0))) THEN PyEq(self.elt, None)
    ELSE IF Truthy(PyEq(a, PyInt(1))) THEN PyEq(self.elt, PyInt(0))
    ELSE IF IsElt(a) THEN
        IF a.q = self.q THEN PyEq(a.elt, self.elt)
        ELSE Raise("TypeError", 385)
    ELSE None

\* d[k], or KeyError raised at the given line.
DictGet(d, k, line) == IF HasKey(d, k) THEN d[k] ELSE Raise("KeyError", line)

\* Mutant of add_result: the bit patterns are added as integers, not XOR-ed.
add_result_sum(self, a) ==
    IF Truthy(PyEq(a, PyInt(1))) THEN
        IF HasKey(self.f.power_to_poly, PyInt(0))
        THEN PyInt(self.f.power_to_poly[self.elt] + self.f.power_to_poly[PyInt(0)])
        ELSE Raise("KeyError", 258)
    ELSE IF IsElt(a) THEN
        IF a.q = self.q
        THEN PyInt(self.f.power_to_poly[self.elt] + a.f.power_to_poly[a.elt])
        ELSE Raise("TypeError", 277)
    ELSE Raise("TypeError", 279)

\* Lines 254-279 of __add__: the polynomial `result`, or the exception.
\* (The assignment under `if a==None` is overwritten or followed by the
\* raise of line 279, so it never reaches the return.)
add_result(self, a) ==
    IF Truthy(PyEq(a, PyInt(1))) THEN
        IF HasKey(self.f.power_to_poly, PyInt(0))
        THEN PyInt(Xor(self.f.power_to_poly[self.elt], self.f.power_to_poly[PyInt(0)]))
        ELSE Raise("KeyError", 258)
    ELSE IF IsElt(a) THEN
        IF a.q = self.q
        THEN PyInt(Xor(self.f.power_to_poly[self.elt], a.f.power_to_poly[a.elt]))
        ELSE Raise("TypeError", 277)
    ELSE Raise("TypeError", 279)

\* ffelt.__add__(self, a)
ffelt_add(self, a) ==
    LET result == add_result(self, a) IN
    IF IsRaise(result) THEN result
    ELSE LET e == DictGet(self.f.poly_to_power, result.v, 283)
         IN  IF IsRaise(e) THEN e ELSE [self EXCEPT !.elt = e]

\* ffelt.__sub__(self, a)
ffelt_sub(self, a) == ffelt_add(self, a)

\* ffelt.__mul__(self, a)
ffelt_mul(self, a) ==
    IF Truthy(PyEq(a, None)) \/ Truthy(PyEq(self.elt, None)) THEN
        [self EXCEPT !.elt = None]
    ELSE IF Truthy(PyEq(a, PyInt(0))) THEN [self EXCEPT !.elt = None]
    ELSE IF Truthy(PyEq(a, PyInt(1))) THEN [self EXCEPT !.elt = self.elt]
    ELSE IF IsElt(a) THEN
        IF a.q = self.q
        THEN [self EXCEPT !.elt = PyInt(PyMod(self.elt.v + a.elt.v, self.q - 1))]
        ELSE Raise("TypeError", 300)
    ELSE Raise("TypeError", 302)

\* ffelt.__truediv__(self, a)
ffelt_truediv(self, a) ==
    IF Truthy(PyEq(a, None)) THEN Raise("TypeError", 311)
    ELSE IF Truthy(PyEq(self.elt, None)) THEN [self EXCEPT !.elt = None]
    ELSE IF a.t = "int" THEN
        [self EXCEPT !.elt = PyInt(PyMod(self.elt.v - a.v, self.q - 1))]
    ELSE IF IsElt(a) THEN
        IF a.q = self.q THEN
            IF a.elt = None THEN Raise("TypeError", 318)
            ELSE [self EXCEPT !.elt = PyInt(PyMod(self.elt.v - a.elt.v, self.q - 1))]
        ELSE Raise("TypeError", 320)
    ELSE Raise("TypeError", 322)

\* ffelt.__pow__(self, a)
ffelt_pow(self, a) ==
    IF Truthy(PyEq(self.elt, None)) THEN [self EXCEPT !.elt = None]
    ELSE IF a.t = "int" THEN
        [self EXCEPT !.elt = PyInt(PyMod(self.elt.v * a.v, self.q - 1))]
    ELSE Raise("TypeError", 336)

\* The loop of conjugates() (lines 351-355) from exponent conj.
RECURSIVE conj_loop(_, _, _)
conj_loop(self, conj, result) ==
    LET r1 == Append(result, ffelt_init(PyInt(conj), self.f))
        c1 == PyMod(conj + conj, self.q - 1)
    IN  IF c1 = self.elt.v THEN r1 ELSE conj_loop(self, c1, r1)

\* ffelt.conjugates(self): on the zero element conj+conj is None+None.
conjugates(self) ==
    IF self.elt = None THEN Raise("TypeError", 353)
    ELSE PyList(conj_loop(self, self.elt.v, <<>>))

\* The binary digits of num, most significant first ('0' for 0).
RECURSIVE binary_repr(_)
binary_repr(num) ==
    IF num < 2 THEN <<num>> ELSE Append(binary_repr(num \div 2), num % 2)

\* bin_array(num, m): binary_repr(num).zfill(m) as a vector.
bin_array(num, m) ==
    LET b == binary_repr(num)
    IN  [i \in 1 .. (IF m > Len(b) THEN m - Len(b) ELSE 0) |-> 0] \o b

\* Lines 407-410: the candidate's terms from (1-based) position pos on are
\* added to result; an exception of an addition ends the evaluation.
RECURSIVE mp_eval(_, _, _, _)
mp_eval(self, candidate, pos, result) ==
    IF pos > Len(candidate) \/ IsRaise(result) THEN result
    ELSE IF candidate[pos] > 0 THEN
        mp_eval(self, candidate, pos + 1,
                ffelt_add(result, ffelt_pow(self, PyInt(Len(candidate) - pos))))
    ELSE mp_eval(self, candidate, pos + 1, result)

\* Line 403: the i-th candidate for num_conjugates conjugates.
mp_candidate(i, num_conjugates) == <<1>> \o bin_array(i, num_conjugates - 1) \o <<1>>

\* Lines 429-432: the positions of the nonzero coefficients, or the vector.
mp_return(candidate, coeffs) ==
    IF coeffs THEN
        LET n == Len(candidate)
            pos == {n - i : i \in {j \in 1 .. n : candidate[j] > 0}}
            RECURSIVE Sorted(_)
            Sorted(S) ==
                IF S = {} THEN <<>>
                ELSE LET lo == CHOOSE a \in S : \A b \in S : a <= b
                     IN  <<lo>> \o Sorted(S \ {lo})
        IN  PyList(Sorted(pos))
    ELSE PyList(candidate)

\* Lines 407-410 for the i-th candidate: the value of the candidate at self,
\* or the exception an addition raised.
mp_value(self, i, num_conjugates) ==
    mp_eval(self, mp_candidate(i, num_conjugates), 1, ffelt_init(None, self.f))

\* The candidates at which the search of lines 401-421 would end: the
\* evaluation raises, or `result==0` holds and the loop breaks.
mp_ends(self, num_conjugates) ==
    {i \in 0 .. (2 ^ (num_conjugates - 1) - 1) :
        \E v \in {mp_value(self, i, num_conjugates)} :
            IsRaise(v) \/ Truthy(PyEq(v, PyInt(0)))}

\* Lines 398-421: the loop ends at the first such candidate; when there is
\* none, candidate is left as the last one tried.
mp_search(self, num_conjugates, coeffs) ==
    LET ends == mp_ends(self, num_conjugates) IN
    IF ends = {} THEN
        mp_return(mp_candidate(2 ^ (num_conjugates - 1) - 1, num_conjugates), coeffs)
    ELSE
        LET i0 == CHOOSE i \in ends : \A j \in ends : i <= j
            v0 == mp_value(self, i0, num_conjugates)
        IN  IF IsRaise(v0) THEN v0
            ELSE mp_return(mp_candidate(i0, num_conjugates), coeffs)

\* ffelt.minpoly(self, coeffs)
minpoly(self, coeffs) ==
    IF self.elt = None THEN Raise("TypeError", 397)
    ELSE IF self.elt.v > 0 THEN
        mp_search(self, Len(conjugates(self).items), coeffs)
    ELSE mp_return(<<1, 1>>, coeffs)

\* ------------------------------------------------------------ state
\* gspec: the specifier a session's field is built from (SpecField).
\* fld:   the ff object built from it, Unset before the constructor returns.
\* x:     the element the program holds.
\* op, arg, res: the call just made, its argument, and what it returned or
\*        raised; op is "idle" between statements, when the program holds
\*        only its variables.
VARIABLES gspec, fld, x, op, arg, res

vars == <<gspec, fld, x, op, arg, res>>

\* Exponent arguments of the ffelt constructor for a field of order q, and an
\* argument that is neither an int nor None.
EltInputs(q) ==
    {None, PyBool(TRUE)} \cup {PyInt(n) : n \in (0 - ExtraExp) .. (q - 2 + ExtraExp)}

\* The elements of the fields used in element arithmetic.
ArithElts ==
    {e \in {ffelt_init(PyInt(n), gs) : n \in 0 .. (2 ^ MaxM - 2), gs \in ArithSpecs}
           \cup {ffelt_init(None, gs) : gs \in ArithSpecs} : IsElt(e)}

\* Right operands: elements, the raw sentinel None, raw integers.
Operands == ArithElts \cup {None} \cup {PyInt(k) : k \in 0 .. MaxRawInt}

CallArgs(elt, f) == [t |-> "args", elt |-> elt, f |-> f]

Init ==
    /\ gspec = Unset
    /\ fld = Unset
    /\ x = Unset
    /\ op = "idle"
    /\ arg = None
    /\ res = None

\* x = ffelt(e, gs): on an exception x keeps its value.
NewElt ==
    \E gs \in ArithSpecs : \E e \in EltInputs(2 ^ MaxM) :
        /\ op = "idle"
        /\ res' = ffelt_init(e, gs)
        /\ x' = IF IsElt(res') THEN res' ELSE x
        /\ op' = "ffelt"
        /\ arg' = CallArgs(e, gs)
        /\ UNCHANGED <<gspec, fld>>

\* x = ffelt(gs): the one-argument form.
NewDefaultElt ==
    \E gs \in ArithSpecs :
        /\ op = "idle"
        /\ res' = ffelt_init(gs, PyInt(-1))
        /\ x' = IF IsElt(res') THEN res' ELSE x
        /\ op' = "ffelt1"
        /\ arg' = CallArgs(gs, PyInt(-1))
        /\ UNCHANGED <<gspec, fld>>

\* x + b
Add ==
    \E b \in Operands :
        /\ op = "idle"
        /\ IsElt(x)
        /\ res' = ffelt_add(x, b)
        /\ op' = "add"
        /\ arg' = b
        /\ UNCHANGED <<gspec, fld, x>>

\* x - b
Sub ==
    \E b \in Operands :
        /\ op = "idle"
        /\ IsElt(x)
        /\ res' = ffelt_sub(x, b)
        /\ op' = "sub"
        /\ arg' = b
        /\ UNCHANGED <<gspec, fld, x>>

\* x * b
Mul ==
    \E b \in Operands :
        /\ op = "idle"
        /\ IsElt(x)
        /\ res' = ffelt_mul(x, b)
        /\ op' = "mul"
        /\ arg' = b
        /\ UNCHANGED <<gspec, fld, x>>

\* x / b
Div ==
    \E b \in Operands :
        /\ op = "idle"
        /\ IsElt(x)
        /\ res' = ffelt_truediv(x, b)
        /\ op' = "div"
        /\ arg' = b
        /\ UNCHANGED <<gspec, fld, x>>

\* x ** k, and x ** None
Pow ==
    \E k \in {PyInt(n) : n \in (0 - MaxPow) .. MaxPow} \cup {None} :
        /\ op = "idle"
        /\ IsElt(x)
        /\ res' = ffelt_pow(x, k)
        /\ op' = "pow"
        /\ arg' = k
        /\ UNCHANGED <<gspec, fld, x>>

\* x == b
Eq ==
    \E b \in Operands :
        /\ op = "idle"
        /\ IsElt(x)
        /\ res' = ffelt_eq(x, b)
        /\ op' = "eq"
        /\ arg' = b
        /\ UNCHANGED <<gspec, fld, x>>

\* x.conjugates()
Conjugates ==
    /\ op = "idle"
    /\ IsElt(x)
    /\ res' = conjugates(x)
    /\ op' = "conjugates"
    /\ arg' = None
    /\ UNCHANGED <<gspec, fld, x>>

\* x.minpoly(coeffs)
Minpoly ==
    \E coeffs \in BOOLEAN :
        /\ op = "idle"
        /\ IsElt(x)
        /\ res' = minpoly(x, coeffs)
        /\ op' = "minpoly"
        /\ arg' = PyBool(coeffs)
        /\ UNCHANGED <<gspec, fld, x>>

\* x = <the element the call returned>: the statement assigns its value.
Keep ==
    /\ IsElt(res)
    /\ op \in {"add", "sub", "mul", "div", "pow"}
    /\ x' = res
    /\ op' = "idle"
    /\ arg' = None
    /\ res' = None
    /\ UNCHANGED <<gspec, fld>>

\* The statement ends without assigning the call's value (or the exception
\* was caught): the program goes on holding what it held.
Discard ==
    /\ op # "idle"
    /\ op' = "idle"
    /\ arg' = None
    /\ res' = None
    /\ UNCHANGED <<gspec, fld, x>>

Next ==
    \/ NewElt
    \/ NewDefaultElt
    \/ Add
    \/ Sub
    \/ Mul
    \/ Div
    \/ Pow
    \/ Eq
    \/ Conjugates
    \/ Minpoly
    \/ Keep
    \/ Discard

\* Element arithmetic over the fields of ArithSpecs.
Spec == Init /\ [][Next]_vars

\* ------------------------------------------------------------ field sessions
\* A session builds one field from its specifier and then works with the
\* elements of that field, as print_minpoly_table, add_table and mul_table do.
InitField ==
    /\ gspec \in FieldSpecs
    /\ fld = Unset
    /\ x = Unset
    /\ op = "idle"
    /\ arg = None
    /\ res = None

\* fld = ff(gspec)
Build ==
    /\ op = "idle"
    /\ fld = Unset
    /\ gspec # Unset
    /\ res' = ff(gspec)
    /\ fld' = IF IsFF(res') THEN res' ELSE fld
    /\ op' = "ff"
    /\ arg' = gspec
    /\ UNCHANGED <<gspec, x>>

\* x = ffelt(e, fld)
FieldElt ==
    /\ op = "idle"
    /\ IsFF(fld)
    /\ \E e \in EltInputs(fld.q) :
        /\ res' = ffelt_init(e, fld)
        /\ x' = IF IsElt(res') THEN res' ELSE x
        /\ op' = "ffelt"
        /\ arg' = CallArgs(e, gspec)
        /\ UNCHANGED <<gspec, fld>>

NextField ==
    \/ Build
    \/ FieldElt
    \/ Pow
    \/ Conjugates
    \/ Minpoly
    \/ Keep
    \/ Discard

SpecField == InitField /\ [][NextField]_vars

\* ------------------------------------------------------------ properties
\* The exception comes from one of the field-size checks (the raise
\* statements of __add__, __mul__, __truediv__ and __eq__).
IsFieldMismatch(r) == IsRaise(r) /\ r.line \in {277, 300, 320, 385}

\* The stored exponent is the zero sentinel or an integer in [0, q-2].
EltInRange(e) ==
    IsElt(e) => (e.elt = None \/ (e.elt.t = "int" /\ e.elt.v \in 0 .. (e.q - 2)))

\* power_to_poly and poly_to_power of the ff object f are mutual inverses on
\* the exponents 0 .. q-2 and the polynomial values 1 .. q-1.
MutualInverses(f) ==
    /\ \A n \in 0 .. (f.q - 2) :
        /\ HasKey(f.power_to_poly, PyInt(n))
        /\ HasKey(f.poly_to_power, f.power_to_poly[PyInt(n)])
        /\ f.poly_to_power[f.power_to_poly[PyInt(n)]] = PyInt(n)
    /\ \A v \in 1 .. (f.q - 1) :
        /\ HasKey(f.poly_to_power, v)
        /\ f.poly_to_power[v] # None
        /\ HasKey(f.power_to_poly, f.poly_to_power[v])
        /\ f.power_to_poly[f.poly_to_power[v]] = v

\* The value at e of the polynomial with coefficient vector c (most
\* significant first), computed with the element power and add operations.
PolyAt(c, e) == mp_eval(e, c, 1, ffelt_init(None, e.f))

\* C1: add, subtract, multiply and divide fail with the field-mismatch error
\* whenever the right operand is an element of a field of another order q,
\* whatever the two values are.
C1_MismatchedOrdersFail ==
    (op \in {"add", "sub", "mul", "div"} /\ IsElt(arg) /\ arg.q # x.q)
        => IsFieldMismatch(res)

\* C2: a division whose divisor is zero -- the raw sentinel None, or the zero
\* element of the dividend's field -- raises and returns no element, for
\* every dividend, the zero dividend included.
C2_DivisionByZeroFails ==
    (op = "div" /\ (arg = None \/ (IsElt(arg) /\ arg.q = x.q /\ arg.elt = None)))
        => IsRaise(res)

\* C3: in one field, a + 0 == a, 0 + a == a and a + a == 0 for every element
\* a, and the element built in GF(16) from the unreduced exponent 15 is the
\* element 1.
C3_AdditiveIdentityAndCharacteristic2 ==
    /\ (op = "add" /\ IsElt(arg) /\ arg.f = x.f /\ arg.elt = None)
         => (IsElt(res) /\ res.f = x.f /\ res.elt = x.elt /\ Truthy(ffelt_eq(res, x)))
    /\ (op = "add" /\ IsElt(arg) /\ arg.f = x.f /\ x.elt = None)
         => (IsElt(res) /\ res.f = x.f /\ res.elt = arg.elt /\ Truthy(ffelt_eq(res, arg)))
    /\ (op = "add" /\ arg = x)
         => (IsElt(res) /\ res.elt = None
             /\ Truthy(ffelt_eq(res, ffelt_init(None, x.f))))
    /\ (op = "ffelt" /\ arg.f = PyInt(16) /\ arg.elt = PyInt(15))
         => (IsElt(res) /\ res.elt = PyInt(0))

\* C3 witness: in GF(16) the element 1 has been added to itself and the sum
\* is the zero element.
C3_Witness ==
    /\ op = "add"
    /\ IsElt(x) /\ x.q = 16 /\ x.elt = PyInt(0)
    /\ arg = x
    /\ IsElt(res) /\ res.elt = None

\* C4: the tables of a field built from a catalog order q have order q and
\* are mutual inverses on the nonzero elements.
C4_CatalogTablesMutualInverses ==
    (IsFF(fld) /\ gspec.t = "int") => (fld.q = gspec.v /\ MutualInverses(fld))

\* C4 witness: the field of the largest catalog order has been built.
C4_Witness ==
    op = "ff" /\ gspec = PyInt(256) /\ IsFF(fld) /\ fld.q = 256 /\ res = fld

\* C5: for every element e of a catalog field, minpoly(e) returns a
\* coefficient vector whose value at e is the zero element and whose degree
\* is the number of conjugates of e.
C5_MinpolyRootAndDegree ==
    (op = "minpoly" /\ arg = PyBool(FALSE) /\ gspec.t = "int")
        => /\ res.t = "list"
           /\ IsElt(PolyAt(res.items, x))
           /\ PolyAt(res.items, x).elt = None
           /\ conjugates(x).t = "list"
           /\ Len(res.items) - 1 = Len(conjugates(x).items)

\* C6: minpoly of the zero element returns [1,0] and minpoly of the element 1
\* returns [1,1]; neither call fails.
C6_MinpolyOfZeroAndOne ==
    (op = "minpoly" /\ arg = PyBool(FALSE))
        => /\ (x.elt = None => res = PyList(<<1, 0>>))
           /\ (x.elt = PyInt(0) => res = PyList(<<1, 1>>))

\* C7: comparing two elements yields true exactly when their fields have the
\* same order q and their exponent-or-zero values are the same.
C7_EqualIffSameOrderAndValue ==
    (op = "eq" /\ IsElt(arg))
        => ((res = PyBool(TRUE)) <=> (arg.q = x.q /\ arg.elt = x.elt))

\* C8: every element the program holds or a call returned -- from a
\* construction with any integer exponent or the sentinel, from add,
\* subtract, multiply, divide by an element or a raw integer, or from a power
\* with any integer -- stores the zero sentinel or an exponent in [0, q-2].
C8_ExponentInRange ==
    /\ EltInRange(x)
    /\ EltInRange(res)
    /\ (res.t = "list" /\ op = "conjugates")
         => \A i \in 1 .. Len(res.items) : EltInRange(res.items[i])

\* C8 witness: a nonzero element other than 1 has been raised to a negative
\* power and the call returned an element.
C8_Witness ==
    /\ op = "pow"
    /\ arg.t = "int" /\ arg.v < 0
    /\ IsElt(x) /\ x.elt # None /\ x.elt # PyInt(0)
    /\ IsElt(res) /\ res.elt # None /\ res.elt # PyInt(0)

\* C9: for every element e, conjugates(e) returns a sequence that starts
\* with e, doubles the exponent modulo q-1 from each element to the next,
\* repeats no element, whose last element squared is e, and whose length
\* divides m.
C9_ConjugateOrbit ==
    (op = "conjugates")
        => /\ res.t = "list"
           /\ Len(res.items) >= 1
           /\ res.items[1] = x
           /\ \A i \in 1 .. (Len(res.items) - 1) :
                res.items[i + 1] = [x EXCEPT !.elt = PyInt((2 * res.items[i].elt.v) % (x.q - 1))]
           /\ \A i, j \in 1 .. Len(res.items) : res.items[i] = res.items[j] => i = j
           /\ ffelt_pow(res.items[Len(res.items)], PyInt(2)) = x
           /\ x.f.m % Len(res.items) = 0

\* An explicit exponent list without the constant term (or with no term at
\* all), or an integer order outside the catalog.
InvalidSpecifier(gs) ==
    \/ (gs.t = "int" /\ gs.v \notin DOMAIN primpolys)
    \/ (gs.t = "list" /\ \A i \in 1 .. Len(gs.items) : gs.items[i] # 0)

\* C10: ff() fails on an integer order outside the catalog and on an
\* exponent list that lacks the constant term, and whatever it returns has
\* consistent tables.
C10_InvalidSpecifierFails ==
    (op = "ff")
        => /\ (InvalidSpecifier(gspec) => IsRaise(res))
           /\ (IsFF(res) => MutualInverses(res))

\* ------------------------------------------------------------ supporting facts
\* What the code does satisfy next to C1, C5, C6, C9 and C10.

\* A mismatched right operand is refused unless the call returns before it
\* reaches its field-size check: the right operand is the element 1 (add,
\* subtract); either operand is zero or the right one is 1 (multiply); the
\* dividend is zero (divide).
MismatchRefusedElsewhere ==
    (op \in {"add", "sub", "mul", "div"} /\ IsElt(arg) /\ arg.q # x.q)
        => \/ IsFieldMismatch(res)
           \/ (op \in {"add", "sub"} /\ arg.elt = PyInt(0))
           \/ (op = "mul" /\ (x.elt = None \/ arg.elt = None \/ arg.elt = PyInt(0)))
           \/ (op = "div" /\ x.elt = None)

\* minpoly and conjugates meet C5, C6 and C9 on every nonzero element of a
\* catalog field.
NonzeroMinpolyAndOrbit ==
    (gspec.t = "int" /\ IsElt(x) /\ x.elt # None)
        => /\ C5_MinpolyRootAndDegree
           /\ C6_MinpolyOfZeroAndOne
           /\ C9_ConjugateOrbit

\* ff() refuses every integer outside the catalog and every non-specifier.
NonCatalogOrderRefused ==
    (op = "ff" /\ gspec.t # "list" /\ ~(gspec.t = "int" /\ gspec.v \in DOMAIN primpolys))
        => IsRaise(res)

====
